---- MODULE Spec2Model ----
(***************************************************************************)
(* MicroSpark (src/unnamed/part_003, lines 37-251): an in-process event    *)
(* emitter with wildcard keys, once-wrappers, deferred listener results    *)
(* and an error-observer side channel.                                     *)
(*                                                                         *)
(* Strings are modelled as sequences of one-character strings, so that     *)
(* String.includes, String.replace(/\*/g, '.*') and RegExp.test are        *)
(* computed character by character, as the code computes them.             *)
(*                                                                         *)
(* emit runs user callbacks.  It is modelled as the steps of its two       *)
(* nested loops (EmitCall, NextKey, Invoke, EmitReturn): one step per map  *)
(* entry visited and one per listener invoked, each step including all the *)
(* registry calls the invoked listener makes.  JavaScript is single        *)
(* threaded, so no top-level call interleaves with a running emit; only    *)
(* the settlement of deferred listener results (promises) happens later.   *)
(***************************************************************************)
EXTENDS Integers, Sequences, FiniteSets, TLC

VARIABLES
    events,          \* this.events: Map<string, Listener[]>, in insertion order
    errorListeners,  \* this.errorListeners: Array<ErrorListener>
    closures,        \* the closure of every onceWrapper created by once()
    frame,           \* the activation record of the running emit call
    pending,         \* Promise.all(promises).then(..).catch(..) of the last emit
    ret,             \* what the last emit call returned / its deferred result
    trace,           \* history: calls made by the observed emit, in order
    snap,            \* history: the emitter and the arguments when emit was called
    last,            \* history: the last registry call made from the top level
    pulse            \* the Pulse emitter of src/src/core/emitter.ts and its caller

vars == <<events, errorListeners, closures, frame, pending, ret, trace, snap, last, pulse>>

-----------------------------------------------------------------------------
(* Bounds of the model *)

MaxReg == 2        \* listener entries in the registry, all keys together
MaxObs == 1        \* registered error observers
MaxOnce == 1       \* once() calls (wrapper closures created)
MaxLimit == 2      \* largest maxEmits passed to once()
MinLimit == -1         \* least maxEmits passed to once
MaxCalls == 4      \* listener invocations recorded for one emit call
MaxKeyLen == 3     \* characters of a key given to on() in SpecMatch
MaxNameLen == 3    \* characters of a name given to emit() in SpecMatch

-----------------------------------------------------------------------------
(* Inputs: strings, listeners, arguments *)

\* Keys passed to on/once/off/clear and names passed to emit
Keys == {<<"a">>, <<"a", "*">>}
Names == {<<"a">>, <<"a", "b">>}

\* Arguments of clear: none (<<>>), a key, or the empty string
ClearArgs == {<<>>, << <<>> >>} \cup {<<k>> : k \in Keys}

\* Strings of 1..n characters of the alphabet cs
Strings(cs, n) == UNION {[1..m -> cs] : m \in 1..n}

\* Keys and names for the matcher: '.' and '(' are regex metacharacters,
\* LF is a line terminator
LF == "\n"
MatchKeys == Strings({"a", ".", "*", "("}, MaxKeyLen)
MatchNames == Strings({"a", "b", ".", LF}, MaxNameLen)

\* A listener is a function reference; k says what the function does when it
\* is called and n tells apart functions of the same kind.
\*   ok    returns undefined            bad   throws an Error
\*   async returns a promise            mut   calls on/off/clear of the emitter
\*   once  the onceWrapper closure number n created by once()
Fn(k, n) == [k |-> k, n |-> n]
Ok == Fn("ok", 0)
Bad == Fn("bad", 0)
Pa == Fn("async", 1)
Pb == Fn("async", 2)
Mut == Fn("mut", 0)
Wrapper(i) == Fn("once", i)
Undefined == Fn("undefined", 0)
UserListeners == {Ok, Bad, Pa, Pb, Mut}
\* Error observers: observer returns, badobserver throws
Observers == {Fn("observer", 1), Fn("observer", 2)}
BadObserver == Fn("badobserver", 0)

\* An argument of emit: a plain value v, or a function returning v
Val(v) == [fn |-> FALSE, v |-> v]
Thunk(v) == [fn |-> TRUE, v |-> v]
ArgLists == {<<Val(<<"x">>)>>, <<Thunk(<<"y">>)>>}

-----------------------------------------------------------------------------
(* Strings *)

\* String.prototype.includes for a one-character needle
includes(s, c) == \E i \in 1..Len(s) : s[i] = c

\* pattern.includes('.*')
includesDotStar(s) == \E i \in 1..(Len(s) - 1) : s[i] = "." /\ s[i + 1] = "*"

\* event.replace(/\*/g, '.*')
RECURSIVE replaceStar(_)
replaceStar(s) ==
    IF s = <<>> THEN <<>>
    ELSE (IF Head(s) = "*" THEN <<".", "*">> ELSE <<Head(s)>>) \o replaceStar(Tail(s))

\* getWildcardPattern(event) || event
\* (the replacement of a string holding '*' is never the empty string, so
\* the || falls through exactly when getWildcardPattern returns undefined)
getWildcardPattern(event) ==
    IF includes(event, "*") THEN replaceStar(event) ELSE event

\* One regex atom against one character: '.' matches any character but a
\* line terminator, any other atom itself.
atomMatches(a, c) == IF a = "." THEN c # LF ELSE a = c

\* new RegExp(`^${pattern}$`).test(event), for patterns over the alphabet
\* of the model: an atom followed by '*' is that atom repeated.
RECURSIVE regexTest(_, _)
regexTest(p, s) ==
    IF p = <<>> THEN s = <<>>
    ELSE IF Len(p) >= 2 /\ p[2] = "*"
         THEN \/ regexTest(SubSeq(p, 3, Len(p)), s)
              \/ s # <<>> /\ atomMatches(p[1], Head(s)) /\ regexTest(p, Tail(s))
         ELSE s # <<>> /\ atomMatches(p[1], Head(s)) /\ regexTest(Tail(p), Tail(s))

\* Mutant of eventMatches: every key compiled to a RegExp
eventMatchesAlwaysRegex(pattern, event) == regexTest(pattern, event)

\* Mutant of eventMatches: no key compiled to a RegExp
eventMatchesNeverRegex(pattern, event) == pattern = event

eventMatches(pattern, event) ==
    IF includesDotStar(pattern) THEN regexTest(pattern, event) ELSE pattern = event

\* new RegExp(`^${pattern}$`) throws a SyntaxError: of the alphabet of the
\* model, '(' opens a group that nothing closes.  The pattern is compiled
\* only when it includes '.*'.
eventMatchesThrows(pattern) == includesDotStar(pattern) /\ includes(pattern, "(")

-----------------------------------------------------------------------------
(* The registry: a Map in insertion order, iterated by the running emit *)

\* The activation record of emit.  depth is the number of emit calls that are
\* suspended below it (0 for a call from the top level).  ki is the position of the Map iterator
\* (the number of entries before its next entry), cur the array the inner
\* for-of is iterating, li the number of its elements already visited, and
\* live whether cur is still the array object stored in the map under ckey
\* (off replaces the array of a key, on pushes into the stored array).
IdleFrame ==
    [active |-> FALSE, event |-> <<>>, args |-> <<>>, ki |-> 0, ckey |-> <<>>,
     cur |-> <<>>, live |-> FALSE, li |-> 0, errors |-> <<>>, promises |-> <<>>,
     depth |-> 0]

indexOf(ev, p) ==
    IF \E i \in 1..Len(ev) : ev[i].key = p
    THEN CHOOSE i \in 1..Len(ev) : ev[i].key = p
    ELSE 0

has(ev, p) == indexOf(ev, p) # 0

get(ev, p) == IF has(ev, p) THEN ev[indexOf(ev, p)].ls ELSE <<>>

removeAt(seq, i) == SubSeq(seq, 1, i - 1) \o SubSeq(seq, i + 1, Len(seq))

\* Map.prototype.delete: a live iterator skips the deleted entry
mapDelete(s, p) ==
    LET i == indexOf(s.events, p) IN
    IF i = 0 THEN s
    ELSE [s EXCEPT !.events = removeAt(@, i),
                   !.frame.ki = IF i <= @ THEN @ - 1 ELSE @,
                   !.frame.live = @ /\ s.frame.ckey # p]

\* Map.prototype.set on a key already present: the entry keeps its place and
\* gets a new array object
mapSet(s, p, ls) ==
    [s EXCEPT !.events[indexOf(s.events, p)].ls = ls,
              !.frame.live = @ /\ s.frame.ckey # p]

\* Mutant of mapClear: only the oldest entry removed
mapClearOldest(s) ==
    [s EXCEPT !.events = IF @ = <<>> THEN @ ELSE Tail(@),
              !.frame.ki = 0, !.frame.live = FALSE]

\* Map.prototype.clear
mapClear(s) == [s EXCEPT !.events = <<>>, !.frame.ki = 0, !.frame.live = FALSE]

\* listeners.filter((l) => l !== listener)
filter(ls, listener) == SelectSeq(ls, LAMBDA l : l # listener)

\* Mutant of on: the listener replaces the sequence of the key
onReplacing(s, event, listener) ==
    LET pattern == getWildcardPattern(event)
        i == indexOf(s.events, pattern)
    IN  IF i = 0
        THEN [s EXCEPT !.events = Append(@, [key |-> pattern, ls |-> <<listener>>])]
        ELSE [s EXCEPT !.events[i].ls = <<listener>>]

\* on(event, listener).  The weakListeners branch is taken only for a
\* listener with typeof 'object'; listeners are functions.
on(s, event, listener) ==
    LET pattern == getWildcardPattern(event)
        i == indexOf(s.events, pattern)
    IN  IF i = 0
        THEN [s EXCEPT !.events = Append(@, [key |-> pattern, ls |-> <<listener>>])]
        ELSE [s EXCEPT !.events[i].ls = Append(@, listener),
                       !.frame.cur = IF s.frame.live /\ s.frame.ckey = pattern
                                     THEN Append(@, listener) ELSE @]

\* Mutant of off: the first occurrence of the listener removed only
offFirstOccurrence(s, event, listener) ==
    LET pattern == getWildcardPattern(event)
        ls == get(s.events, pattern)
    IN  IF ~has(s.events, pattern) THEN s
        ELSE IF listener = Undefined THEN mapDelete(s, pattern)
        ELSE IF \E i \in 1..Len(ls) : ls[i] = listener
        THEN mapSet(s, pattern,
                    removeAt(ls, CHOOSE i \in 1..Len(ls) :
                                    /\ ls[i] = listener
                                    /\ \A j \in 1..(i - 1) : ls[j] # listener))
        ELSE s

\* Mutant of off: the listener removed from the sequence of every key
offEveryKey(s, event, listener) ==
    LET pattern == getWildcardPattern(event) IN
    IF ~has(s.events, pattern) THEN s
    ELSE IF listener = Undefined THEN mapDelete(s, pattern)
    ELSE [s EXCEPT !.events = [i \in 1..Len(s.events) |->
                                 [s.events[i] EXCEPT !.ls = filter(@, listener)]],
                   !.frame.live = FALSE]

\* Mutant of off: off(event) empties the whole registry
offEverything(s, event, listener) ==
    LET pattern == getWildcardPattern(event) IN
    IF ~has(s.events, pattern) THEN s
    ELSE IF listener = Undefined THEN mapClear(s)
    ELSE mapSet(s, pattern, filter(get(s.events, pattern), listener))

\* off(event, listener?)
off(s, event, listener) ==
    LET pattern == getWildcardPattern(event) IN
    IF ~has(s.events, pattern) THEN s
    ELSE IF listener = Undefined THEN mapDelete(s, pattern)
    ELSE mapSet(s, pattern, filter(get(s.events, pattern), listener))

\* clear(event?): eventOpt is <<>> for a call without argument, else <<event>>.
\* `if (event)` is false for undefined and for the empty string.
clear(s, eventOpt) ==
    IF eventOpt # <<>> /\ eventOpt[1] # <<>>
    THEN mapDelete(s, getWildcardPattern(eventOpt[1]))
    ELSE mapClear(s)

\* once(event, listener, maxEmits): a new closure (emitCount = 0) and its
\* onceWrapper registered with on.  invoked is history: how often the wrapper
\* has called the wrapped listener.
once(s, event, listener, maxEmits) ==
    LET i == Len(s.closures) + 1 IN
    on([s EXCEPT !.closures = Append(@, [event |-> event, listener |-> listener,
                                         maxEmits |-> maxEmits, emitCount |-> 0,
                                         invoked |-> 0])],
       event, Wrapper(i))

-----------------------------------------------------------------------------
(* Calling a listener *)

\* One entry of the history of calls: t = "call" for a listener called with
\* args (via = 0 by emit, via = i by onceWrapper i), "notify" for an error
\* observer called with (args[1], err), "arg" for a function argument called.
\* key is the map key whose listeners emit is iterating at that moment.
Entry(t, l, args, via, err) ==
    [t |-> t, l |-> l, args |-> args, via |-> via, err |-> err, key |-> <<>>]

log(s, e) == [s EXCEPT !.trace = Append(@, [e EXCEPT !.key = s.frame.ckey])]

\* What a call gives back to its caller
Returned == [t |-> "return", v |-> Undefined]
Threw(err) == [t |-> "throw", v |-> err]
Promised(p) == [t |-> "promise", v |-> p]

\* The registry calls a listener of kind mut may make, one per invocation
NoOp == [op |-> "none", key |-> <<>>, l |-> Undefined]
MutTargets == {Ok, Pa, Mut}
MutOps ==
    {[op |-> "on", key |-> <<k>>, l |-> l] : k \in Keys, l \in MutTargets}
    \cup {[op |-> "off", key |-> <<k>>, l |-> l] : k \in Keys, l \in MutTargets \cup {Undefined}}
    \cup {[op |-> "clear", key |-> ko, l |-> Undefined] : ko \in ClearArgs}

applyOp(s, op) ==
    CASE op.op = "on" -> on(s, op.key[1], op.l)
      [] op.op = "off" -> off(s, op.key[1], op.l)
      [] op.op = "clear" -> clear(s, op.key)
      [] OTHER -> s

\* A listener that emits again: called by an emit from the top level it calls
\* emit with the name of that emit and the arguments it received, drops the
\* result and returns; called by an emit at depth MaxDepth it just returns.
MaxDepth == 1
Re == Fn("reemit", 0)

RECURSIVE emitNested(_, _, _)

\* A call of a function supplied by the user.  The Error thrown by a bad
\* listener and the promise returned by an async listener are named after
\* the listener.
callUser(s, l, args, op, via) ==
    LET s1 == log(s, Entry("call", l, args, via, Undefined)) IN
    CASE l.k = "bad" -> [s |-> s1, out |-> Threw(l)]
      [] l.k = "async" -> [s |-> s1, out |-> Promised(l)]
      [] l.k = "mut" -> [s |-> applyOp(s1, op), out |-> Returned]
      [] l.k = "reemit" ->
            IF s1.frame.depth < MaxDepth
            THEN emitNested(s1, s1.frame.event, s1.frame.args)
            ELSE [s |-> s1, out |-> Returned]
      [] OTHER -> [s |-> s1, out |-> Returned]

\* Mutant of onceWrapper: emitCount++ forgotten
onceWrapperNoCount(s, i, args, op) ==
    LET c == s.closures[i]
        s1 == log(s, Entry("call", Wrapper(i), args, 0, Undefined))
        enter == c.emitCount < c.maxEmits
        r == IF enter THEN callUser(s1, c.listener, args, op, i)
             ELSE [s |-> s1, out |-> Returned]
        s2 == IF enter
              THEN [r.s EXCEPT !.closures[i].invoked = @ + 1]
              ELSE r.s
    IN  IF r.out.t = "throw" THEN [s |-> s2, out |-> r.out]
        ELSE [s |-> IF s2.closures[i].emitCount >= c.maxEmits
                    THEN off(s2, c.event, Wrapper(i))
                    ELSE s2,
              out |-> Returned]

\* Mutant of onceWrapper: emitCount++ and the removal in a finally block
onceWrapperCountsThrow(s, i, args, op) ==
    LET c == s.closures[i]
        s1 == log(s, Entry("call", Wrapper(i), args, 0, Undefined))
        enter == c.emitCount < c.maxEmits
        r == IF enter THEN callUser(s1, c.listener, args, op, i)
             ELSE [s |-> s1, out |-> Returned]
        s2 == IF enter
              THEN [r.s EXCEPT !.closures[i].invoked = @ + 1]
              ELSE r.s
        s3 == IF enter
              THEN [s2 EXCEPT !.closures[i].emitCount = @ + 1]
              ELSE s2
    IN  [s |-> IF s3.closures[i].emitCount >= c.maxEmits
               THEN off(s3, c.event, Wrapper(i))
               ELSE s3,
         out |-> r.out]

\* Mutant of onceWrapper: the removal inside the if block of the call
onceWrapperStays(s, i, args, op) ==
    LET c == s.closures[i]
        s1 == log(s, Entry("call", Wrapper(i), args, 0, Undefined))
        enter == c.emitCount < c.maxEmits
        r == IF enter THEN callUser(s1, c.listener, args, op, i)
             ELSE [s |-> s1, out |-> Returned]
        s2 == IF enter
              THEN [r.s EXCEPT !.closures[i].invoked = @ + 1]
              ELSE r.s
        s3 == IF enter
              THEN [s2 EXCEPT !.closures[i].emitCount = @ + 1]
              ELSE s2
    IN  IF r.out.t = "throw" THEN [s |-> s2, out |-> r.out]
        ELSE [s |-> IF enter /\ s3.closures[i].emitCount >= c.maxEmits
                    THEN off(s3, c.event, Wrapper(i))
                    ELSE s3,
              out |-> Returned]

\* onceWrapper from `if (emitCount >= maxEmits)` on
onceWrapperRemoval(s, i) ==
    [s |-> IF s.closures[i].emitCount >= s.closures[i].maxEmits
           THEN off(s, s.closures[i].event, Wrapper(i))
           ELSE s,
     out |-> Returned]

\* onceWrapper after listener(...args) gave r: an exception leaves the
\* wrapper at once, otherwise emitCount++.  The value of listener(...args)
\* is dropped.
onceWrapperCalled(r, i) ==
    IF r.out.t = "throw"
    THEN [s |-> [r.s EXCEPT !.closures[i].invoked = @ + 1], out |-> r.out]
    ELSE onceWrapperRemoval([r.s EXCEPT !.closures[i].invoked = @ + 1,
                                        !.closures[i].emitCount = @ + 1], i)

\* onceWrapper(...args) of closure i
onceWrapper(s, i, args, op) ==
    IF s.closures[i].emitCount < s.closures[i].maxEmits
    THEN onceWrapperCalled(
            callUser(log(s, Entry("call", Wrapper(i), args, 0, Undefined)),
                     s.closures[i].listener, args, op, i), i)
    ELSE onceWrapperRemoval(log(s, Entry("call", Wrapper(i), args, 0, Undefined)), i)

\* listener(...args) as emit calls it
callListener(s, l, args, op) ==
    IF l.k = "once" THEN onceWrapper(s, l.n, args, op)
    ELSE callUser(s, l, args, op, 0)

\* Mutant of emitError: the observers are given the key being iterated
RECURSIVE emitErrorWithKey(_, _, _, _)
emitErrorWithKey(s, obs, event, err) ==
    IF obs = <<>> THEN [s |-> s, out |-> Returned]
    ELSE LET s1 == log(s, Entry("notify", Head(obs), <<s.frame.ckey>>, 0, err)) IN
         IF Head(obs).k = "badobserver"
         THEN [s |-> s1, out |-> Threw(Head(obs))]
         ELSE emitErrorWithKey(s1, Tail(obs), event, err)

\* Mutant of emitError: no observer called
emitErrorSilent(s, obs, event, err) == [s |-> s, out |-> Returned]

\* emitError(event, err): every error observer, in order; an observer that
\* throws ends the loop and emitError
RECURSIVE emitError(_, _, _, _)
emitError(s, obs, event, err) ==
    IF obs = <<>> THEN [s |-> s, out |-> Returned]
    ELSE LET s1 == log(s, Entry("notify", Head(obs), <<event>>, 0, err)) IN
         IF Head(obs).k = "badobserver"
         THEN [s |-> s1, out |-> Threw(Head(obs))]
         ELSE emitError(s1, Tail(obs), event, err)

-----------------------------------------------------------------------------
(* State *)

\* EmitResult: { success: true } or { success: false, errors }; the optional
\* field errors is <<>> when absent and <<list>> when present.
Result(errors) ==
    IF Len(errors) > 0 THEN [success |-> FALSE, errors |-> <<errors>>]
    ELSE [success |-> TRUE, errors |-> <<>>]

\* What the caller of the last emit holds: nothing yet ("none"), an
\* EmitResult ("sync"), a pending promise ("pending"), a promise resolved to
\* an EmitResult ("resolved"), a rejected promise ("rejected"); "threw" when
\* emit was left by an exception.
NoValue == [success |-> FALSE, errors |-> <<>>]
NoRet == [state |-> "none", value |-> NoValue]

NoPending == [active |-> FALSE, event |-> <<>>, errors |-> <<>>, ps |-> <<>>]
NoSnap == [events |-> <<>>, closures |-> <<>>, observers |-> <<>>,
           event |-> <<>>, args |-> <<>>, raw |-> <<>>]

\* The last on, off or clear called from the top level: its arguments (key
\* is <<>> for no argument, else <<key>>), and the registry and the error
\* observers before it.  NoCall when there is none.
NoCall ==
    [op |-> "none", key |-> <<>>, l |-> Undefined, before |-> <<>>, observers |-> <<>>]

Call(op, key, l) ==
    [op |-> op, key |-> key, l |-> l, before |-> events, observers |-> errorListeners]

\* Pulse: this.events, the closures of its onceWrappers (the wrapped
\* listeners), what emit returned last, and the array the caller got from
\* listeners(event): held.value is the array now, held.seen the array as it
\* was returned, held.live whether it is the array stored under held.key.
\* held.known is history: was the key registered when listeners was called.
NoHeld ==
    [got |-> FALSE, key |-> <<>>, value |-> <<>>, seen |-> <<>>, live |-> FALSE,
     known |-> FALSE]
\* The last registry call made on the Pulse of types.ts, and its
\* wildcardEvents before the call; history, as last is for MicroSpark
NoPatternCall == [op |-> "none", key |-> <<>>, l |-> Undefined, wild |-> <<>>]

\* A Pulse: events and ret as for MicroSpark; wrapped and held belong to the
\* class of emitter.ts; wildcardEvents, calls (the listeners the last emit
\* called, each with the RegExp of its entry) and hist to that of types.ts
NoPulse ==
    [events |-> <<>>, wrapped |-> <<>>, ret |-> NoRet, held |-> NoHeld,
     wildcardEvents |-> <<>>, calls |-> <<>>, hist |-> NoPatternCall]

S ==
    [events |-> events, frame |-> frame, closures |-> closures, trace |-> trace,
     errorListeners |-> errorListeners]

RECURSIVE size(_)
size(ev) == IF ev = <<>> THEN 0 ELSE Len(Head(ev).ls) + size(Tail(ev))

nCalls(tr) == Len(SelectSeq(tr, LAMBDA e : e.t = "call" /\ e.via = 0))

Init ==
    /\ events = <<>>
    /\ errorListeners = <<>>
    /\ closures = <<>>
    /\ frame = IdleFrame
    /\ pending = NoPending
    /\ ret = NoRet
    /\ trace = <<>>
    /\ snap = NoSnap
    /\ last = NoCall
    /\ pulse = NoPulse

\* How often the function l stands in the sequence ls
count(ls, l) == Cardinality({i \in 1..Len(ls) : ls[i] = l})

\* Is the function l stored in the registry ev?
registered(ev, l) == \E i \in 1..Len(ev) : \E j \in 1..Len(ev[i].ls) : ev[i].ls[j] = l

\* Garbage collection: the closure of an onceWrapper that the registry no
\* longer holds is unreachable (once() gives the wrapper to nobody else).
RECURSIVE collect(_, _)
collect(cl, ev) ==
    IF cl # <<>> /\ ~registered(ev, Wrapper(Len(cl)))
    THEN collect(SubSeq(cl, 1, Len(cl) - 1), ev)
    ELSE cl

\* Mutant of TopLevel: the registry call also empties this.errorListeners
TopLevelDroppingObservers(s) ==
    /\ events' = s.events
    /\ closures' = collect(s.closures, s.events)
    /\ ret' = NoRet
    /\ trace' = <<>>
    /\ snap' = NoSnap
    /\ pending' = NoPending
    /\ errorListeners' = <<>>
    /\ UNCHANGED <<frame, pulse>>

\* A registry call from the top level ends the observation of the last emit
\* (history only: what the program does later does not depend on it).
TopLevel(s) ==
    /\ events' = s.events
    /\ closures' = collect(s.closures, s.events)
    /\ ret' = NoRet
    /\ trace' = <<>>
    /\ snap' = NoSnap
    /\ pending' = NoPending
    /\ UNCHANGED <<errorListeners, frame, pulse>>

-----------------------------------------------------------------------------
(* Calls from the top level *)

CallOn ==
    \E k \in Keys, l \in UserListeners :
        /\ ~frame.active
        /\ size(events) < MaxReg
        /\ TopLevel(on(S, k, l))
        /\ last' = NoCall

CallOnce ==
    \E k \in Keys, l \in UserListeners, n \in MinLimit..MaxLimit :
        /\ ~frame.active
        /\ size(events) < MaxReg
        /\ Len(closures) < MaxOnce
        /\ TopLevel(once(S, k, l, n))
        /\ last' = NoCall

CallOff ==
    \E k \in Keys, l \in UserListeners \cup {Undefined} :
        /\ ~frame.active
        /\ TopLevel(off(S, k, l))
        /\ last' = NoCall

CallClear ==
    \E ko \in ClearArgs :
        /\ ~frame.active
        /\ TopLevel(clear(S, ko))
        /\ last' = NoCall

\* onError(handler)
CallOnError ==
    \E h \in Observers :
        /\ ~frame.active
        /\ Len(errorListeners) < MaxObs
        /\ errorListeners' = Append(errorListeners, h)
        /\ IF pending.active
           THEN UNCHANGED <<ret, trace, snap>>
           ELSE ret' = NoRet /\ trace' = <<>> /\ snap' = NoSnap
        /\ UNCHANGED <<events, closures, frame, pending, last, pulse>>

-----------------------------------------------------------------------------
(* emit(event, ...args) *)

\* args.map((arg) => typeof arg === 'function' ? arg() : arg)
processedArgs(args) == [i \in 1..Len(args) |-> args[i].v]

\* Mutant of argCalls: a function argument called again for the listeners
argCallsTwice(args) ==
    LET fns == SelectSeq(args, LAMBDA a : a.fn)
    IN  [i \in 1..(2 * Len(fns)) |->
           Entry("arg", Undefined, <<fns[(i + 1) \div 2].v>>, 0, Undefined)]

\* The calls arg() of the function arguments, in the order of the arguments
argCalls(args) ==
    LET fns == SelectSeq(args, LAMBDA a : a.fn)
    IN  [i \in 1..Len(fns) |-> Entry("arg", Undefined, <<fns[i].v>>, 0, Undefined)]

\* Mutants of passedArgs: the event name always, or never, prepended
passedArgsAlwaysNamed(key, event, args) == <<event>> \o args

passedArgsNeverNamed(key, event, args) == args

\* The arguments emit passes to a listener of the entry `key`
passedArgs(key, event, args) ==
    IF includes(key, "*") THEN <<event>> \o args ELSE args

\* Entry of emit: errors = [], promises = [], processedArgs, and the Map
\* iterator before the first entry.  Following a new emit call ends the
\* observation of the last one.
EmitCall ==
    \E e \in Names, args \in ArgLists :
        /\ ~frame.active
        /\ \A i \in 1..Len(closures) : closures[i].invoked <= MaxLimit
        /\ frame' = [IdleFrame EXCEPT !.active = TRUE, !.event = e,
                                      !.args = processedArgs(args)]
        /\ trace' = argCalls(args)
        /\ closures' = collect(closures, events)
        /\ snap' = [events |-> events, closures |-> closures',
                    observers |-> errorListeners, event |-> e,
                    args |-> processedArgs(args),
                    raw |-> args]
        /\ ret' = NoRet
        /\ pending' = NoPending
        /\ UNCHANGED <<events, errorListeners, last, pulse>>

\* The outer loop takes the next entry of this.events and tests its key.
\* eventMatches is called outside the try block: a SyntaxError of new RegExp
\* leaves emit.
NextKey ==
    /\ frame.active
    /\ frame.li >= Len(frame.cur)
    /\ frame.ki < Len(events)
    /\ LET entry == events[frame.ki + 1] IN
       IF eventMatchesThrows(entry.key)
       THEN /\ frame' = IdleFrame
            /\ ret' = [state |-> "threw", value |-> NoValue]
       ELSE /\ frame' =
                 IF eventMatches(entry.key, frame.event)
                 THEN [frame EXCEPT !.ki = @ + 1, !.ckey = entry.key, !.cur = entry.ls,
                                    !.live = TRUE, !.li = 0]
                 ELSE [frame EXCEPT !.ki = @ + 1, !.ckey = entry.key, !.cur = <<>>,
                                    !.live = FALSE, !.li = 0]
            /\ UNCHANGED ret
    /\ UNCHANGED <<events, errorListeners, closures, pending, trace, snap, last, pulse>>

\* The registry calls a listener may make in the state s
opsOf(s, l) ==
    IF l.k = "mut" \/ (l.k = "once" /\ s.closures[l.n].listener.k = "mut")
    THEN {op \in MutOps : op.op = "on" => size(s.events) < MaxReg}
    ELSE {NoOp}

\* Mutant of dispatch: errors.push(err) forgotten in the catch block
dispatchNoPush(s, obs, l, op) ==
    LET f == s.frame
        r == callListener(s, l, passedArgs(f.ckey, f.event, f.args), op)
        n == emitError(r.s, obs, f.event, r.out.v)
    IN  CASE r.out.t = "promise" ->
                [s |-> [r.s EXCEPT !.frame.promises = Append(@, r.out.v)],
                 out |-> Returned]
          [] r.out.t = "throw" -> n
          [] OTHER -> [s |-> r.s, out |-> Returned]

\* Mutant of dispatch: the loop over the listeners of the key left at the
\* first promise, as if emit awaited it there
dispatchAwaitsPromise(s, obs, l, op) ==
    LET f == s.frame
        r == callListener(s, l, passedArgs(f.ckey, f.event, f.args), op)
        n == emitError(r.s, obs, f.event, r.out.v)
    IN  CASE r.out.t = "promise" ->
                [s |-> [r.s EXCEPT !.frame.promises = Append(@, r.out.v),
                                   !.frame.cur = SubSeq(@, 1, f.li + 1),
                                   !.frame.live = FALSE],
                 out |-> Returned]
          [] r.out.t = "throw" ->
                IF n.out.t = "throw" THEN n
                ELSE [s |-> [n.s EXCEPT !.frame.errors = Append(@, r.out.v)],
                      out |-> Returned]
          [] OTHER -> [s |-> r.s, out |-> Returned]

\* Mutant of dispatch: errors.unshift(err) for errors.push(err)
dispatchUnshift(s, obs, l, op) ==
    LET f == s.frame
        r == callListener(s, l, passedArgs(f.ckey, f.event, f.args), op)
        n == emitError(r.s, obs, f.event, r.out.v)
    IN  CASE r.out.t = "promise" ->
                [s |-> [r.s EXCEPT !.frame.promises = Append(@, r.out.v)],
                 out |-> Returned]
          [] r.out.t = "throw" ->
                IF n.out.t = "throw" THEN n
                ELSE [s |-> [n.s EXCEPT !.frame.errors = <<r.out.v>> \o @],
                      out |-> Returned]
          [] OTHER -> [s |-> r.s, out |-> Returned]

\* catch (err) { this.emitError(event, err); errors.push(err) } after
\* emitError gave n
errorPushed(n, err) ==
    IF n.out.t = "throw" THEN n
    ELSE [s |-> [n.s EXCEPT !.frame.errors = Append(@, err)], out |-> Returned]

\* The body of the inner loop after listener(...) gave r
listenerCalled(r, obs, event) ==
    CASE r.out.t = "promise" ->
            [s |-> [r.s EXCEPT !.frame.promises = Append(@, r.out.v)], out |-> Returned]
      [] r.out.t = "throw" -> errorPushed(emitError(r.s, obs, event, r.out.v), r.out.v)
      [] OTHER -> [s |-> r.s, out |-> Returned]

\* The body of the inner loop for the listener l: try { listener(...) } with
\* the promise pushed, catch { emitError; errors.push }.  out is "throw" when
\* an exception leaves the catch block, and with it emit.
dispatch(s, obs, l, op) ==
    listenerCalled(
        callListener(s, l, passedArgs(s.frame.ckey, s.frame.event, s.frame.args), op),
        obs, s.frame.event)

\* Mutant of nextListener: the array iterated from its end
nextListenerLastFirst(f) == f.cur[Len(f.cur) - f.li]

\* The element the iterator of `for (const listener of listeners)` yields
nextListener(f) == f.cur[f.li + 1]

\* The two loops of an emit called by a listener, from the state of its frame
\* s.frame to their end: the steps of NextKey and Invoke, one after the other
\* without any other call in between.  out is "throw" when an exception
\* leaves emit.
RECURSIVE emitLoops(_)
RECURSIVE emitLoopsAfter(_)

\* The loops after the body of the inner loop gave d
emitLoopsAfter(d) ==
    IF d.out.t = "throw" THEN d
    ELSE emitLoops([d.s EXCEPT !.frame.li = @ + 1])

emitLoops(s) ==
    IF s.frame.li < Len(s.frame.cur)
    THEN emitLoopsAfter(dispatch(s, s.errorListeners, nextListener(s.frame), NoOp))
    ELSE IF s.frame.ki < Len(s.events)
    THEN IF eventMatchesThrows(s.events[s.frame.ki + 1].key)
         THEN [s |-> s, out |-> Threw(Undefined)]
         ELSE emitLoops(
                 [s EXCEPT !.frame =
                    IF eventMatches(s.events[s.frame.ki + 1].key, s.frame.event)
                    THEN [@ EXCEPT !.ki = @ + 1, !.ckey = s.events[s.frame.ki + 1].key,
                                   !.cur = s.events[s.frame.ki + 1].ls,
                                   !.live = TRUE, !.li = 0]
                    ELSE [@ EXCEPT !.ki = @ + 1, !.ckey = s.events[s.frame.ki + 1].key,
                                   !.cur = <<>>, !.live = FALSE, !.li = 0]])
    ELSE [s |-> s, out |-> Returned]

\* The frame of s resumed when the emit its listener called gave r.  The
\* listeners of that emit are once wrappers and listeners that return, throw
\* or emit again: they add and delete no key, so the iterator of the suspended
\* frame stays where it is, and its array is no longer the stored one if a
\* wrapper has replaced it.  The caller drops the EmitResult.
emitResumed(s, r) ==
    [s |-> [r.s EXCEPT !.frame = [s.frame EXCEPT !.live = @ /\ r.s.events = s.events]],
     out |-> IF r.out.t = "throw" THEN r.out ELSE Returned]

\* emit(event, ...args) called by a listener while the emit of s.frame is
\* running: a new frame above s.frame
emitNested(s, event, args) ==
    emitResumed(s, emitLoops([s EXCEPT !.frame = [IdleFrame EXCEPT !.active = TRUE,
                                                                  !.event = event,
                                                                  !.args = args,
                                                                  !.depth = s.frame.depth + 1]]))

\* The loop after the body of the inner loop gave d: an exception leaves emit
Invoked(d) ==
    /\ events' = d.s.events
    /\ closures' = d.s.closures
    /\ trace' = d.s.trace
    /\ IF d.out.t = "throw"
       THEN frame' = IdleFrame /\ ret' = [state |-> "threw", value |-> NoValue]
       ELSE frame' = [d.s.frame EXCEPT !.li = @ + 1] /\ UNCHANGED ret

Invoke ==
    /\ frame.active
    /\ frame.li < Len(frame.cur)
    /\ nCalls(trace) < MaxCalls
    /\ \E op \in opsOf(S, nextListener(frame)) :
          Invoked(dispatch(S, errorListeners, nextListener(frame), op))
    /\ UNCHANGED <<errorListeners, pending, snap, last, pulse>>

\* After the loops: the result, or Promise.all(promises).then(..).catch(..)
EmitReturn ==
    /\ frame.active
    /\ frame.li >= Len(frame.cur)
    /\ frame.ki >= Len(events)
    /\ IF Len(frame.promises) > 0
       THEN /\ pending' = [active |-> TRUE, event |-> frame.event,
                           errors |-> frame.errors,
                           ps |-> [i \in 1..Len(frame.promises) |->
                                     [l |-> frame.promises[i], st |-> "pending"]]]
            /\ ret' = [state |-> "pending", value |-> NoValue]
       ELSE /\ pending' = NoPending
            /\ ret' = [state |-> "sync", value |-> Result(frame.errors)]
    /\ frame' = IdleFrame
    /\ UNCHANGED <<events, errorListeners, closures, trace, snap, last, pulse>>

-----------------------------------------------------------------------------
(* Settlement of the deferred results *)

allResolved(ps) == \A i \in 1..Len(ps) : ps[i].st = "resolved"

\* The promise number i of the list given to Promise.all resolves or rejects
\* (a promise may also stay pending for ever).  Promise.all rejects with the
\* first rejection and fulfils when every promise is fulfilled; its .then
\* and .catch handlers run once, when it settles.  The Error of a rejection
\* is named after the listener that returned the promise.
Settle ==
    \E i \in 1..Len(pending.ps), st \in {"resolved", "rejected"} :
        /\ pending.active
        /\ ~frame.active
        /\ pending.ps[i].st = "pending"
        /\ LET ps == [pending.ps EXCEPT ![i].st = st]
               err == pending.ps[i].l
               n == emitError(S, errorListeners, pending.event, err)
           IN  IF ret.state = "pending" /\ st = "rejected"
               THEN /\ trace' = n.s.trace
                    /\ IF n.out.t = "throw"
                       THEN /\ pending' = [pending EXCEPT !.ps = ps]
                            /\ ret' = [state |-> "rejected", value |-> NoValue]
                       ELSE /\ pending' = [pending EXCEPT !.ps = ps,
                                                          !.errors = Append(@, err)]
                            /\ ret' = [state |-> "resolved",
                                       value |-> [success |-> FALSE,
                                                  errors |-> <<Append(pending.errors, err)>>]]
               ELSE IF ret.state = "pending" /\ allResolved(ps)
               THEN /\ pending' = [pending EXCEPT !.ps = ps]
                    /\ ret' = [state |-> "resolved", value |-> Result(pending.errors)]
                    /\ UNCHANGED trace
               ELSE /\ pending' = [pending EXCEPT !.ps = ps]
                    /\ UNCHANGED <<ret, trace>>
        /\ UNCHANGED <<events, errorListeners, closures, frame, snap, last, pulse>>

-----------------------------------------------------------------------------
(* Specification *)

Next ==
    \/ CallOn
    \/ CallOnce
    \/ CallOff
    \/ CallClear
    \/ CallOnError
    \/ EmitCall
    \/ NextKey
    \/ Invoke
    \/ EmitReturn
    \/ Settle

Spec == Init /\ [][Next]_vars

\* The same emitter with error observers that may throw
CallOnErrorThrowing ==
    /\ ~frame.active
    /\ Len(errorListeners) < MaxObs
    /\ errorListeners' = Append(errorListeners, BadObserver)
    /\ IF pending.active
       THEN UNCHANGED <<ret, trace, snap>>
       ELSE ret' = NoRet /\ trace' = <<>> /\ snap' = NoSnap
    /\ UNCHANGED <<events, closures, frame, pending, last, pulse>>

NextObs == Next \/ CallOnErrorThrowing

SpecObs == Init /\ [][NextObs]_vars

\* The emitter called with on, off, clear, onError and emit by code that
\* remembers its last registry call.  The listeners return or throw.
MaxRemovalReg == 3
MaxRemovalObs == 2

LoggedOn ==
    \E k \in Keys, l \in {Ok, Bad} :
        /\ ~frame.active
        /\ size(events) < MaxRemovalReg
        /\ TopLevel(on(S, k, l))
        /\ last' = Call("on", <<k>>, l)

LoggedOff ==
    \E k \in Keys, l \in {Ok, Bad, Undefined} :
        /\ ~frame.active
        /\ TopLevel(off(S, k, l))
        /\ last' = Call("off", <<k>>, l)

LoggedClear ==
    \E ko \in ClearArgs :
        /\ ~frame.active
        /\ TopLevel(clear(S, ko))
        /\ last' = Call("clear", ko, Undefined)

LoggedOnError ==
    \E h \in {Fn("observer", Len(errorListeners) + 1)} :
        /\ ~frame.active
        /\ Len(errorListeners) < MaxRemovalObs
        /\ errorListeners' = Append(errorListeners, h)
        /\ ret' = NoRet
        /\ trace' = <<>>
        /\ snap' = NoSnap
        /\ last' = Call("onError", <<>>, h)
        /\ UNCHANGED <<events, closures, frame, pending, pulse>>

NextRemoval ==
    \/ LoggedOn
    \/ LoggedOff
    \/ LoggedClear
    \/ LoggedOnError
    \/ EmitCall
    \/ NextKey
    \/ Invoke
    \/ EmitReturn

SpecRemoval == Init /\ [][NextRemoval]_vars

\* The emitter called with on, once, off and emit by code that remembers its
\* last registry call.  The listeners return or throw.
LoggedOnce ==
    \E k \in Keys, l \in {Ok, Bad}, n \in MinLimit..MaxLimit :
        /\ ~frame.active
        /\ size(events) < MaxRemovalReg
        /\ Len(closures) < MaxOnce
        /\ TopLevel(once(S, k, l, n))
        /\ last' = Call("once", <<k>>, l)

NextCancel ==
    \/ LoggedOn
    \/ LoggedOnce
    \/ LoggedOff
    \/ EmitCall
    \/ NextKey
    \/ Invoke
    \/ EmitReturn

SpecCancel == Init /\ [][NextCancel]_vars

\* The matcher: one listener registered under a key of MatchKeys, and names
\* of MatchNames emitted.
MatchOn ==
    \E k \in MatchKeys :
        /\ ~frame.active
        /\ events = <<>>
        /\ TopLevel(on(S, k, Ok))
        /\ last' = NoCall

MatchEmit ==
    \E e \in MatchNames, args \in {<<Val(<<"x">>)>>} :
        /\ ~frame.active
        /\ \A i \in 1..Len(closures) : closures[i].invoked <= MaxLimit
        /\ frame' = [IdleFrame EXCEPT !.active = TRUE, !.event = e,
                                      !.args = processedArgs(args)]
        /\ trace' = argCalls(args)
        /\ closures' = collect(closures, events)
        /\ snap' = [events |-> events, closures |-> closures',
                    observers |-> errorListeners, event |-> e,
                    args |-> processedArgs(args),
                    raw |-> args]
        /\ ret' = NoRet
        /\ pending' = NoPending
        /\ UNCHANGED <<events, errorListeners, last, pulse>>

NextMatch ==
    \/ MatchOn
    \/ MatchEmit
    \/ NextKey
    \/ Invoke
    \/ EmitReturn

SpecMatch == Init /\ [][NextMatch]_vars

\* The emitter with listeners that fail: two that throw, each its own Error,
\* and one that returns a promise
MaxErrorsReg == 3

Bad2 == Fn("bad", 1)

ErrorsOn ==
    \E k \in Keys, l \in {Bad, Bad2, Pa} :
        /\ ~frame.active
        /\ size(events) < MaxErrorsReg
        /\ TopLevel(on(S, k, l))
        /\ last' = NoCall

ErrorsOnError ==
    /\ ~frame.active
    /\ ~pending.active
    /\ Len(errorListeners) < MaxObs
    /\ errorListeners' = Append(errorListeners, Fn("observer", 1))
    /\ ret' = NoRet /\ trace' = <<>> /\ snap' = NoSnap
    /\ UNCHANGED <<events, closures, frame, pending, last, pulse>>

NextErrors ==
    \/ ErrorsOn
    \/ ErrorsOnError
    \/ EmitCall
    \/ NextKey
    \/ Invoke
    \/ EmitReturn
    \/ Settle

SpecErrors == Init /\ [][NextErrors]_vars

\* The emitter with listeners that call emit again while they are called
ReentrantOn ==
    \E k \in Keys, l \in {Ok, Re} :
        /\ ~frame.active
        /\ size(events) < MaxReg
        /\ TopLevel(on(S, k, l))
        /\ last' = NoCall

ReentrantOnce ==
    \E k \in Keys, l \in {Ok, Re}, n \in MinLimit..MaxLimit :
        /\ ~frame.active
        /\ size(events) < MaxReg
        /\ Len(closures) < MaxOnce
        /\ TopLevel(once(S, k, l, n))
        /\ last' = NoCall

NextReentrant ==
    \/ ReentrantOn
    \/ ReentrantOnce
    \/ EmitCall
    \/ NextKey
    \/ Invoke
    \/ EmitReturn

SpecReentrant == Init /\ [][NextReentrant]_vars

-----------------------------------------------------------------------------
(* Pulse (src/src/core/emitter.ts): exact keys only, emit in one step.  The  *)
(* option maxListeners only writes a warning to the console.                *)

MaxPulseReg == 2       \* listeners in the registry of Pulse, all keys together
MaxPulseOnce == 1      \* onceWrapper closures of Pulse alive at a time

PulseKeys == {<<"a">>, <<"b">>}
PulseListeners == {Ok, Bad}
PulseWrapper(i) == Fn("pulseonce", i)

\* this.events.delete(event): the array the caller holds is no longer stored
pulseDelete(q, event) ==
    [q EXCEPT !.events = removeAt(@, indexOf(q.events, event)),
              !.held.live = @ /\ q.held.key # event]

\* on(event, listener): the listener is pushed into the stored array, which
\* is the array the caller holds when held.live
pulseOn(q, event, listener) ==
    LET i == indexOf(q.events, event) IN
    IF i = 0
    THEN [q EXCEPT !.events = Append(@, [key |-> event, ls |-> <<listener>>])]
    ELSE [q EXCEPT !.events[i].ls = Append(@, listener),
                   !.held.value = IF q.held.live /\ q.held.key = event
                                  THEN Append(@, listener) ELSE @]

\* once(event, listener)
pulseOnce(q, event, listener) ==
    pulseOn([q EXCEPT !.wrapped = Append(@, listener)], event,
            PulseWrapper(Len(q.wrapped) + 1))

\* off(event, listener?): the filtered listeners are a new array
pulseOff(q, event, listener) ==
    IF ~has(q.events, event) THEN q
    ELSE IF listener = Undefined THEN pulseDelete(q, event)
    ELSE LET listeners == filter(get(q.events, event), listener) IN
         IF Len(listeners) = 0 THEN pulseDelete(q, event)
         ELSE [q EXCEPT !.events[indexOf(q.events, event)].ls = listeners,
                        !.held.live = @ /\ q.held.key # event]

\* clear(event?)
pulseClear(q, eventOpt) ==
    IF eventOpt # <<>> /\ eventOpt[1] # <<>>
    THEN IF has(q.events, eventOpt[1]) THEN pulseDelete(q, eventOpt[1]) ELSE q
    ELSE [q EXCEPT !.events = <<>>, !.held.live = FALSE]

\* listeners(event): this.events.get(event) || []
pulseListeners(q, event) ==
    [q EXCEPT !.held = [got |-> TRUE, key |-> event, value |-> get(q.events, event),
                        seen |-> get(q.events, event), live |-> has(q.events, event),
                        known |-> has(q.events, event)]]

\* The loop of emit over the array ls: an onceWrapper removes itself and
\* calls its listener; the Error of a throwing listener is pushed
RECURSIVE pulseDispatch(_, _, _, _)
pulseDispatch(q, ls, event, errors) ==
    IF ls = <<>> THEN [q |-> q, errors |-> errors]
    ELSE LET l == Head(ls)
             q1 == IF l.k = "pulseonce" THEN pulseOff(q, event, l) ELSE q
             f == IF l.k = "pulseonce" THEN q.wrapped[l.n] ELSE l
         IN  pulseDispatch(q1, Tail(ls), event,
                           IF f.k = "bad" THEN Append(errors, f) ELSE errors)

\* emit(event, ...args)
pulseEmit(q, event) ==
    LET listeners == get(q.events, event)
        d == pulseDispatch(q, listeners, event, <<>>)
    IN  IF Len(listeners) = 0
        THEN [q EXCEPT !.ret = [state |-> "sync", value |-> Result(<<>>)]]
        ELSE [d.q EXCEPT !.ret = [state |-> "sync", value |-> Result(d.errors)]]

\* The closure of an onceWrapper that neither the registry nor the array the
\* caller holds contains is unreachable
RECURSIVE pulseCollect(_)
pulseCollect(q) ==
    IF /\ q.wrapped # <<>>
       /\ ~registered(q.events, PulseWrapper(Len(q.wrapped)))
       /\ count(q.held.value, PulseWrapper(Len(q.wrapped))) = 0
    THEN pulseCollect([q EXCEPT !.wrapped = SubSeq(@, 1, Len(@) - 1)])
    ELSE q

sparkVars ==
    <<events, errorListeners, closures, frame, pending, ret, trace, snap, last>>

PulseOn ==
    \E k \in PulseKeys, l \in PulseListeners :
        /\ size(pulse.events) < MaxPulseReg
        /\ pulse' = pulseCollect(pulseOn(pulse, k, l))
        /\ UNCHANGED sparkVars

PulseOnce ==
    \E k \in PulseKeys, l \in PulseListeners :
        /\ size(pulse.events) < MaxPulseReg
        /\ Len(pulse.wrapped) < MaxPulseOnce
        /\ pulse' = pulseCollect(pulseOnce(pulse, k, l))
        /\ UNCHANGED sparkVars

PulseOff ==
    \E k \in PulseKeys, l \in PulseListeners \cup {Undefined} :
        /\ pulse' = pulseCollect(pulseOff(pulse, k, l))
        /\ UNCHANGED sparkVars

PulseClear ==
    \E ko \in {<<>>, << <<>> >>} \cup {<<k>> : k \in PulseKeys} :
        /\ pulse' = pulseCollect(pulseClear(pulse, ko))
        /\ UNCHANGED sparkVars

PulseEmit ==
    \E k \in PulseKeys :
        /\ pulse' = pulseCollect(pulseEmit(pulse, k))
        /\ UNCHANGED sparkVars

PulseGetListeners ==
    \E k \in PulseKeys :
        /\ pulse' = pulseCollect(pulseListeners(pulse, k))
        /\ UNCHANGED sparkVars

NextPulse ==
    \/ PulseOn
    \/ PulseOnce
    \/ PulseOff
    \/ PulseClear
    \/ PulseEmit
    \/ PulseGetListeners

SpecPulse == Init /\ [][NextPulse]_vars

-----------------------------------------------------------------------------
(* Pulse with onPattern (src/src/core/types.ts, lines 231-564): events as in *)
(* emitter.ts and wildcardEvents, a Map whose keys are RegExp objects.  A    *)
(* Map compares object keys by identity.  weakListeners is written but      *)
(* never read.                                                              *)

MaxPatternReg == 2     \* listeners in events and wildcardEvents together

PatternNames == {<<"a">>, <<"b">>}
PatternStrings == {<<"a", "*">>, <<"b", "*">>}

\* A RegExp object: obj = 0 for one made by new RegExp inside a call, which
\* nobody else holds; obj = 1 for the one the caller holds and passes
RegExp(src, obj) == [src |-> src, obj |-> obj]
NoRegExp == RegExp(<<>>, 0)
HeldRegExp == RegExp(<<"b">>, 1)

\* The pattern argument: a string or the RegExp object of the caller
PatternArgs ==
    {[str |-> TRUE, v |-> RegExp(k, 0)] : k \in PatternStrings}
    \cup {[str |-> FALSE, v |-> HeldRegExp]}

\* pattern.replace('*', '.*'): a string pattern replaces the first match only
RECURSIVE replaceFirstStar(_)
replaceFirstStar(s) ==
    IF s = <<>> THEN <<>>
    ELSE IF Head(s) = "*" THEN <<".", "*">> \o Tail(s)
    ELSE <<Head(s)>> \o replaceFirstStar(Tail(s))

\* if (typeof pattern === 'string') pattern = new RegExp(pattern.replace('*', '.*'))
toRegExp(pattern) ==
    IF pattern.str THEN RegExp(replaceFirstStar(pattern.v.src), 0) ELSE pattern.v

\* Does the regular expression p match a prefix of s?
RECURSIVE regexPrefix(_, _)
regexPrefix(p, s) ==
    IF p = <<>> THEN TRUE
    ELSE IF Len(p) >= 2 /\ p[2] = "*"
         THEN \/ regexPrefix(SubSeq(p, 3, Len(p)), s)
              \/ s # <<>> /\ atomMatches(p[1], Head(s)) /\ regexPrefix(p, Tail(s))
         ELSE s # <<>> /\ atomMatches(p[1], Head(s)) /\ regexPrefix(Tail(p), Tail(s))

\* pattern.test(event): the RegExp has no anchors, it matches anywhere
patternTest(re, event) ==
    \E i \in 0..Len(event) : regexPrefix(re.src, SubSeq(event, i + 1, Len(event)))

\* The place of the key re in wildcardEvents, 0 if it is no key: an object
\* made inside the call is no key of the Map
patternIndexOf(w, re) ==
    IF re.obj # 0 /\ \E i \in 1..Len(w) : w[i].re = re
    THEN CHOOSE i \in 1..Len(w) : w[i].re = re
    ELSE 0

\* on(event, listener) of types.ts:253-275, as in emitter.ts
patternOn(q, event, listener) == pulseOn(q, event, listener)

\* onPattern(pattern, listener)
onPattern(q, pattern, listener) ==
    LET re == toRegExp(pattern)
        i == patternIndexOf(q.wildcardEvents, re)
    IN  IF i = 0
        THEN [q EXCEPT !.wildcardEvents = Append(@, [re |-> re, ls |-> <<listener>>])]
        ELSE [q EXCEPT !.wildcardEvents[i].ls = Append(@, listener)]

\* offPattern(pattern, listener)
offPattern(q, pattern, listener) ==
    LET re == toRegExp(pattern)
        i == patternIndexOf(q.wildcardEvents, re)
    IN  IF i = 0 THEN q
        ELSE [q EXCEPT !.wildcardEvents[i].ls = filter(@, listener)]

\* removeWildcardListener(event, listener): every entry whose RegExp matches
\* the string event
RECURSIVE removeWildcardListener(_, _, _)
removeWildcardListener(w, event, listener) ==
    IF w = <<>> THEN <<>>
    ELSE LET rest == removeWildcardListener(Tail(w), event, listener)
             filteredListeners == filter(Head(w).ls, listener)
         IN  IF ~patternTest(Head(w).re, event) THEN <<Head(w)>> \o rest
             ELSE IF listener = Undefined THEN rest
             ELSE IF Len(filteredListeners) = 0 THEN rest
             ELSE <<[Head(w) EXCEPT !.ls = filteredListeners]>> \o rest

\* off(event, listener?) of types.ts:388-413
patternOff(q, event, listener) ==
    [pulseOff(q, event, listener) EXCEPT
        !.wildcardEvents = removeWildcardListener(@, event, listener)]

\* clear(event?) of types.ts:497-514: the RegExp getWildcardPattern makes is a
\* new object, and wildcardEvents.delete of it deletes nothing
patternClear(q, eventOpt) ==
    IF eventOpt # <<>> /\ eventOpt[1] # <<>>
    THEN LET q1 == IF has(q.events, eventOpt[1]) THEN pulseDelete(q, eventOpt[1]) ELSE q
             wildcardPattern == RegExp(replaceFirstStar(eventOpt[1]), 0)
             i == patternIndexOf(q.wildcardEvents, wildcardPattern)
         IN  IF includes(eventOpt[1], "*") /\ i # 0
             THEN [q1 EXCEPT !.wildcardEvents = removeAt(@, i)]
             ELSE q1
    ELSE [q EXCEPT !.events = <<>>, !.held.live = FALSE, !.wildcardEvents = <<>>]

\* The calls of the loop over wildcardEvents for the string event
RECURSIVE patternCalls(_, _)
patternCalls(w, event) ==
    IF w = <<>> THEN <<>>
    ELSE (IF patternTest(Head(w).re, event)
          THEN [j \in 1..Len(Head(w).ls) |-> [l |-> Head(w).ls[j], re |-> Head(w).re]]
          ELSE <<>>) \o patternCalls(Tail(w), event)

\* emit(event, ...args) of types.ts:422-470 for listeners that return or
\* throw: the listeners of events, then those of the matching RegExps
patternEmit(q, event) ==
    LET listeners == get(q.events, event)
        cs == [j \in 1..Len(listeners) |-> [l |-> listeners[j], re |-> NoRegExp]]
                 \o patternCalls(q.wildcardEvents, event)
        failed == SelectSeq(cs, LAMBDA c : c.l.k = "bad")
        errors == [j \in 1..Len(failed) |-> failed[j].l]
    IN  [q EXCEPT !.calls = cs,
                  !.ret = [state |-> "sync", value |-> Result(errors)]]

patternSize(q) == size(q.events) + size(q.wildcardEvents)

\* A registry call: what the last emit left is forgotten
PatternCall(q, op, key, l) ==
    [q EXCEPT !.calls = <<>>, !.ret = NoRet,
              !.hist = [op |-> op, key |-> key, l |-> l, wild |-> pulse.wildcardEvents]]

PatternOn ==
    \E k \in PatternNames, l \in PulseListeners :
        /\ patternSize(pulse) < MaxPatternReg
        /\ pulse' = PatternCall(patternOn(pulse, k, l), "on", <<k>>, l)
        /\ UNCHANGED sparkVars

PatternOnPattern ==
    \E k \in PatternArgs, l \in PulseListeners :
        /\ patternSize(pulse) < MaxPatternReg
        /\ pulse' = PatternCall(onPattern(pulse, k, l), "onPattern", <<k>>, l)
        /\ UNCHANGED sparkVars

PatternOffPattern ==
    \E k \in PatternArgs, l \in PulseListeners :
        /\ pulse' = PatternCall(offPattern(pulse, k, l), "offPattern", <<k>>, l)
        /\ UNCHANGED sparkVars

PatternOff ==
    \E k \in PatternNames \cup PatternStrings, l \in PulseListeners \cup {Undefined} :
        /\ pulse' = PatternCall(patternOff(pulse, k, l), "off", <<k>>, l)
        /\ UNCHANGED sparkVars

PatternClear ==
    \E ko \in {<<>>} \cup {<<k>> : k \in PatternNames \cup PatternStrings} :
        /\ pulse' = PatternCall(patternClear(pulse, ko), "clear", ko, Undefined)
        /\ UNCHANGED sparkVars

PatternEmit ==
    \E e \in PatternNames :
        /\ pulse' = patternEmit(pulse, e)
        /\ UNCHANGED sparkVars

NextPattern ==
    \/ PatternOn
    \/ PatternOnPattern
    \/ PatternOffPattern
    \/ PatternOff
    \/ PatternClear
    \/ PatternEmit

SpecPattern == Init /\ [][NextPattern]_vars

-----------------------------------------------------------------------------
(* Vocabulary of the properties *)

\* The observed emit call has returned to its caller
EmitDone == ~frame.active /\ ret.state \in {"sync", "pending", "resolved"}

\* The listeners emit itself called while it iterated the entry of key k
callsOfKey(k) ==
    SelectSeq(trace, LAMBDA e : e.t = "call" /\ e.via = 0 /\ e.key = k)

directCalls == SelectSeq(trace, LAMBDA e : e.t = "call" /\ e.via = 0)

notifications == SelectSeq(trace, LAMBDA e : e.t = "notify")

\* No user listener called on, off or clear during the observed emit
Quiet == \A i \in 1..Len(trace) : trace[i].t = "call" => trace[i].l.k # "mut"

\* Calls of a throwing listener during the observed emit
thrown == SelectSeq(trace, LAMBDA e : e.t = "call" /\ e.l.k = "bad")

-----------------------------------------------------------------------------
(* C1 *)

\* C1: when emit(E, ...args) has returned and no listener changed the
\* registry during the call, the listeners emit called for the exact key E
\* are the listeners registered under E when emit was called, each once, in
\* their order in the sequence, each with exactly args.
C1_ExactListenersOnceInOrder ==
    (EmitDone /\ Quiet /\ ~includes(snap.event, "*")) =>
        LET ls == get(snap.events, snap.event)
            cs == callsOfKey(snap.event)
        IN  /\ Len(cs) = Len(ls)
            /\ \A i \in 1..Len(ls) : cs[i].l = ls[i] /\ cs[i].args = snap.args

\* Two different listeners registered under the emitted name were called
C1_Witness ==
    /\ EmitDone
    /\ Quiet
    /\ Len(get(snap.events, snap.event)) = 2
    /\ get(snap.events, snap.event)[1] # get(snap.events, snap.event)[2]
    /\ Len(callsOfKey(snap.event)) = 2

-----------------------------------------------------------------------------
(* C2 *)

\* C2: every listener emit calls for a key holding '*' receives the emitted
\* name followed by args, every listener it calls for an exact key receives
\* args only; and when no listener changed the registry during the call,
\* every listener of every wildcard key that matches the emitted name is
\* called.
C2_WildcardListenersGetEventName ==
    EmitDone =>
        /\ \A i \in 1..Len(directCalls) :
              directCalls[i].args =
                 IF includes(directCalls[i].key, "*")
                 THEN <<snap.event>> \o snap.args
                 ELSE snap.args
        /\ Quiet =>
              \A P \in Keys :
                 (includes(P, "*") /\ eventMatches(getWildcardPattern(P), snap.event)) =>
                    LET ls == get(snap.events, getWildcardPattern(P))
                        cs == callsOfKey(getWildcardPattern(P))
                    IN  /\ Len(cs) = Len(ls)
                        /\ \A j \in 1..Len(ls) : cs[j].l = ls[j]

\* One emit called a listener of a wildcard key and a listener of an exact key
C2_Witness ==
    /\ EmitDone
    /\ \E i, j \in 1..Len(directCalls) :
          /\ includes(directCalls[i].key, "*")
          /\ directCalls[i].args = <<snap.event>> \o snap.args
          /\ ~includes(directCalls[j].key, "*")
          /\ directCalls[j].args = snap.args

-----------------------------------------------------------------------------
(* C3 *)

\* The key under which the registry ev holds the function l (<<>> if none)
keyOf(ev, l) ==
    IF \E i \in 1..Len(ev) : count(ev[i].ls, l) > 0
    THEN (CHOOSE e \in {ev[i] : i \in 1..Len(ev)} : count(e.ls, l) > 0).key
    ELSE <<>>

\* once(E, L, n) of closure i: L is called at most n times in all, the
\* wrapper is off the registry once L was called n times, L is called only
\* by an emit at whose entry it had been called fewer than n times, and an
\* emit of a name matching E, during which no listener changes the registry,
\* calls L with the arguments of that emit while the wrapper is registered.
onceHolds(i) ==
    LET c == closures[i]
        w == Wrapper(i)
        k == keyOf(snap.events, w)
    IN  /\ c.invoked <= c.maxEmits
        /\ c.emitCount >= c.maxEmits => ~registered(events, w)
        /\ \A j \in 1..Len(trace) :
              (trace[j].t = "call" /\ trace[j].via = i) =>
                 /\ i <= Len(snap.closures)
                 /\ snap.closures[i].emitCount < c.maxEmits
        /\ (EmitDone /\ Quiet /\ registered(snap.events, w)
              /\ eventMatches(k, snap.event)) =>
              \E j \in 1..Len(trace) :
                 /\ trace[j].t = "call"
                 /\ trace[j].via = i
                 /\ trace[j].l = c.listener
                 /\ trace[j].args = IF includes(k, "*")
                                    THEN <<snap.event>> \o snap.args
                                    ELSE snap.args

-----------------------------------------------------------------------------
(* C4 *)

\* C4: when a synchronous emit(E) has returned, exactly one listener call
\* threw, and no listener changed the registry: every listener registered
\* under E after the throwing listener was called after it, the result is
\* { success: false, errors: [that error] }, and each error observer was
\* called exactly once, with (E, that error), in registration order.
C4_ThrowDoesNotStopDispatch ==
    (EmitDone /\ Quiet /\ ret.state = "sync" /\ Len(thrown) = 1) =>
        LET ls == get(snap.events, snap.event)
            err == thrown[1].l
        IN  /\ \A i, j \in 1..Len(ls) :
                  (i < j /\ ls[i].k = "bad") =>
                     \E p, q \in 1..Len(trace) :
                        /\ p < q
                        /\ trace[p].t = "call" /\ trace[p].l = ls[i]
                        /\ trace[q].t = "call" /\ trace[q].l = ls[j]
                        /\ trace[q].via = 0 /\ trace[q].key = snap.event
            /\ ret.value = [success |-> FALSE, errors |-> <<<<err>>>>]
            /\ Len(notifications) = Len(snap.observers)
            /\ \A h \in 1..Len(snap.observers) :
                  /\ notifications[h].l = snap.observers[h]
                  /\ notifications[h].args = <<snap.event>>
                  /\ notifications[h].err = err

\* A throwing listener followed by a returning one, with an observer
C4_Witness ==
    /\ EmitDone
    /\ ret.state = "sync"
    /\ get(snap.events, snap.event) = <<Bad, Ok>>
    /\ Len(snap.observers) = 1
    /\ Len(thrown) = 1
    /\ Len(callsOfKey(snap.event)) = 2

-----------------------------------------------------------------------------
(* C5 - C8 *)

settled == \A i \in 1..Len(pending.ps) : pending.ps[i].st # "pending"

rejected == {i \in 1..Len(pending.ps) : pending.ps[i].st = "rejected"}

\* The errors of the EmitResult the caller holds
errorsOf(r) == IF r.value.errors = <<>> THEN <<>> ELSE r.value.errors[1]

\* C5: the deferred EmitResult is delivered only when every deferred
\* listener result of that emit has settled.
C5_DeferredResultAfterAllSettled ==
    ret.state = "resolved" => settled

\* C6: once emit has delivered its result and every deferred listener result
\* has settled, errors holds one entry for every listener call that threw
\* and one for every deferred result that was rejected.
C6_OneErrorPerFailure ==
    (~frame.active /\ ret.state \in {"sync", "resolved"} /\ settled) =>
        Len(errorsOf(ret)) = Len(thrown) + Cardinality(rejected)

\* C7: once emit has delivered its result and every deferred listener result
\* has settled, with N failed listener calls (thrown or rejected) each of
\* the error observers registered before the emit was called N times.
C7_ObserversOncePerFailure ==
    (~frame.active /\ ret.state \in {"sync", "resolved"} /\ settled
        /\ errorListeners = snap.observers) =>
        \A h \in 1..Len(errorListeners) :
            Len(SelectSeq(notifications, LAMBDA e : e.l = errorListeners[h]))
               = count(errorListeners, errorListeners[h])
                    * (Len(thrown) + Cardinality(rejected))

\* C8: with observers that do not throw, emit is never left by an exception
\* and its promise is never rejected, and every listener failure (thrown or
\* rejected) is an entry of errors once all deferred results have settled.
C8_FailuresAreDataNotControlFlow ==
    (\A h \in 1..Len(errorListeners) : errorListeners[h].k # "badobserver") =>
        /\ ret.state \notin {"threw", "rejected"}
        /\ (~frame.active /\ ret.state \in {"sync", "resolved"} /\ settled) =>
              /\ \A j \in 1..Len(thrown) : count(errorsOf(ret), thrown[j].l) > 0
              /\ \A i \in rejected :
                    count(errorsOf(ret), pending.ps[i].l)
                       = Cardinality({m \in rejected : pending.ps[m].l = pending.ps[i].l})

-----------------------------------------------------------------------------
(* C9, C10 *)

\* C9: every listener registered under a key matching E when emit(E) was
\* called is called by that emit, whatever the listeners remove meanwhile.
C9_RemovalDuringEmitKeepsSnapshot ==
    EmitDone =>
        \A i \in 1..Len(snap.events) :
            eventMatches(snap.events[i].key, snap.event) =>
                \A j \in 1..Len(snap.events[i].ls) :
                    LET l == snap.events[i].ls[j] IN
                    Len(SelectSeq(callsOfKey(snap.events[i].key), LAMBDA e : e.l = l))
                        >= count(snap.events[i].ls, l)

\* C10: an emit calls no listener that was registered during that emit: it
\* calls a function for a key no more often than the function stood in the
\* sequence of that key when emit was called.
C10_ListenerAddedDuringEmitNotCalled ==
    EmitDone =>
        \A c \in 1..Len(directCalls) :
            LET e == directCalls[c] IN
            Len(SelectSeq(callsOfKey(e.key), LAMBDA x : x.l = e.l))
                <= count(get(snap.events, e.key), e.l)

-----------------------------------------------------------------------------
(* Vocabulary of C11 - C20 *)

\* The emit call is over: it returned or it was left by an exception
EmitOver == ~frame.active /\ ret.state # "none"

\* The matcher as specified: the name e equals the key k with every '*'
\* replaced by some run of characters, possibly empty
RECURSIVE globMatches(_, _)
globMatches(k, e) ==
    IF k = <<>> THEN e = <<>>
    ELSE IF Head(k) = "*"
         THEN globMatches(Tail(k), e) \/ (e # <<>> /\ globMatches(k, Tail(e)))
         ELSE e # <<>> /\ Head(k) = Head(e) /\ globMatches(Tail(k), Tail(e))

\* The key that was given to on() for the stored key p: every '.*' of p
\* stands for a '*' of the key
RECURSIVE rawKey(_)
rawKey(p) ==
    IF p = <<>> THEN <<>>
    ELSE IF Len(p) >= 2 /\ p[2] = "*"
         THEN <<"*">> \o rawKey(SubSeq(p, 3, Len(p)))
         ELSE <<Head(p)>> \o rawKey(Tail(p))

\* The listeners emit called for the stored key p, in the order of the calls
calledFor(p) == [i \in 1..Len(callsOfKey(p)) |-> callsOfKey(p)[i].l]

\* What a listener of the key k (as given to on) is to receive
argsFor(k) == IF includes(k, "*") THEN <<snap.event>> \o snap.args ELSE snap.args

-----------------------------------------------------------------------------
(* C11 *)

\* C11: after off(E, L) and with nothing registered since, an emit that is
\* over has not called L for the key E; and if E matches the emitted name it
\* has called the other listeners that were registered under E, each as
\* often as it was registered, in their order, with the emitted arguments
\* (preceded by the name when E is a wildcard key).
C11_OffRemovesListener ==
    (EmitOver /\ last.op = "off" /\ last.l # Undefined) =>
        LET k == last.key[1]
            p == getWildcardPattern(k)
            rest == SelectSeq(get(last.before, p), LAMBDA x : x # last.l)
            cs == callsOfKey(p)
        IN  /\ \A i \in 1..Len(cs) : cs[i].l # last.l
            /\ globMatches(k, snap.event) =>
                  /\ calledFor(p) = rest
                  /\ \A i \in 1..Len(cs) : cs[i].args = argsFor(k)

\* L was registered twice under E beside another listener, off(E, L) was
\* called, and the emit called the other listener
C11_Witness ==
    /\ EmitOver
    /\ last.op = "off"
    /\ last.l # Undefined
    /\ count(get(last.before, getWildcardPattern(last.key[1])), last.l) = 2
    /\ Len(get(last.before, getWildcardPattern(last.key[1]))) = 3
    /\ Len(callsOfKey(getWildcardPattern(last.key[1]))) = 1

-----------------------------------------------------------------------------
(* C12 *)

\* C12: after off(E) without a listener and with nothing registered since,
\* an emit that is over has called no listener for the key E, the sequence of
\* every other key is what it was before the call, and the listeners of
\* every other key that matches the emitted name were called, in order.
C12_OffRemovesKey ==
    (EmitOver /\ last.op = "off" /\ last.l = Undefined) =>
        LET p == getWildcardPattern(last.key[1]) IN
        /\ callsOfKey(p) = <<>>
        /\ \A i \in 1..Len(last.before) :
              LET q == last.before[i].key IN
              q # p =>
                 /\ get(snap.events, q) = last.before[i].ls
                 /\ globMatches(rawKey(q), snap.event) =>
                       calledFor(q) = last.before[i].ls

\* Two listeners were registered under E and one under another key,
\* off(E) was called, and the emit called the listener of the other key
C12_Witness ==
    /\ EmitOver
    /\ last.op = "off"
    /\ last.l = Undefined
    /\ Len(last.before) = 2
    /\ Len(get(last.before, getWildcardPattern(last.key[1]))) = 2
    /\ globMatches(last.key[1], snap.event)
    /\ Len(directCalls) = 1

-----------------------------------------------------------------------------
(* C13 *)

\* C13: after clear() without argument and with nothing registered since,
\* the registry holds no key, and an emit that is over has called no listener
\* and no error observer and has returned { success: true } synchronously.
C13_ClearEmptiesRegistry ==
    (last.op = "clear" /\ last.key = <<>>) =>
        /\ events = <<>>
        /\ EmitOver =>
              /\ directCalls = <<>>
              /\ notifications = <<>>
              /\ ret = [state |-> "sync",
                        value |-> [success |-> TRUE, errors |-> <<>>]]

\* An exact and a wildcard key that match the emitted name were registered,
\* clear() was called, and the emit has returned
C13_Witness ==
    /\ EmitOver
    /\ last.op = "clear"
    /\ last.key = <<>>
    /\ Len(last.before) = 2
    /\ \A i \in 1..Len(last.before) :
          /\ last.before[i].ls # <<>>
          /\ globMatches(rawKey(last.before[i].key), snap.event)

-----------------------------------------------------------------------------
(* C14 *)

\* C14: after clear(K) with K a string, the empty string included, and with
\* nothing registered since, the registry is the registry before the call
\* without the entry of K, and an emit that is over has called the listeners
\* of every remaining key that matches the emitted name, in order.
C14_ClearKeyRemovesOnlyKey ==
    (last.op = "clear" /\ last.key # <<>>) =>
        LET p == getWildcardPattern(last.key[1])
            kept == SelectSeq(last.before, LAMBDA e : e.key # p)
        IN  /\ events = kept
            /\ EmitOver =>
                  \A i \in 1..Len(kept) :
                      globMatches(rawKey(kept[i].key), snap.event) =>
                          calledFor(kept[i].key) = kept[i].ls

\* The same for every K but the empty string
C14_ClearNonEmptyKey ==
    (last.op = "clear" /\ last.key # <<>> /\ last.key[1] # <<>>) =>
        LET p == getWildcardPattern(last.key[1])
            kept == SelectSeq(last.before, LAMBDA e : e.key # p)
        IN  /\ events = kept
            /\ EmitOver =>
                  \A i \in 1..Len(kept) :
                      globMatches(rawKey(kept[i].key), snap.event) =>
                          calledFor(kept[i].key) = kept[i].ls

-----------------------------------------------------------------------------
(* C15 *)

\* C15: when one error observer was registered before emit, no listener
\* threw, exactly one listener returned a deferred result and that result
\* was rejected with Err1, then the deferred result of emit is resolved to
\* { success: false, errors: [Err1] } and the observer has been called
\* exactly once, with (emitted name, Err1).
C15_SingleRejectionReported ==
    (/\ ~frame.active
     /\ pending.active
     /\ Len(pending.ps) = 1
     /\ pending.ps[1].st = "rejected"
     /\ Len(thrown) = 0
     /\ Len(snap.observers) = 1
     /\ errorListeners = snap.observers) =>
        LET Err1 == pending.ps[1].l IN
        /\ ret = [state |-> "resolved",
                  value |-> [success |-> FALSE, errors |-> << <<Err1>> >>]]
        /\ Len(notifications) = 1
        /\ notifications[1].l = errorListeners[1]
        /\ notifications[1].args = <<snap.event>>
        /\ notifications[1].err = Err1

\* The only deferred result of an emit was rejected, with an observer
C15_Witness ==
    /\ ~frame.active
    /\ pending.active
    /\ Len(pending.ps) = 1
    /\ pending.ps[1].st = "rejected"
    /\ Len(thrown) = 0
    /\ Len(snap.observers) = 1
    /\ ret.state = "resolved"

-----------------------------------------------------------------------------
(* C16 *)

\* C16: an emit that is over, of a name that no key of the registry matched
\* when it was called (neither as the matcher is specified nor as
\* eventMatches decides), has called no listener and no error observer and
\* has returned { success: true } synchronously.
C16_NoMatchReturnsSuccess ==
    (/\ EmitOver
     /\ \A i \in 1..Len(snap.events) :
           /\ ~globMatches(rawKey(snap.events[i].key), snap.event)
           /\ \/ eventMatchesThrows(snap.events[i].key)
              \/ ~eventMatches(snap.events[i].key, snap.event)) =>
        /\ directCalls = <<>>
        /\ notifications = <<>>
        /\ ret = [state |-> "sync", value |-> [success |-> TRUE, errors |-> <<>>]]

-----------------------------------------------------------------------------
(* C17 *)

\* The calls due for the registry ev and the emitted name e: the entries in
\* the order of the registry, the listeners of an entry in their order
RECURSIVE expectedCalls(_, _)
expectedCalls(ev, e) ==
    IF ev = <<>> THEN <<>>
    ELSE (IF globMatches(rawKey(Head(ev).key), e)
          THEN [j \in 1..Len(Head(ev).ls) |-> [key |-> Head(ev).key, l |-> Head(ev).ls[j]]]
          ELSE <<>>) \o expectedCalls(Tail(ev), e)

\* C17: when emit has returned and no listener changed the registry during
\* the call, the calls it made are those of the matching keys, key by key in
\* the order of the keys in the registry (the order in which the keys were
\* first registered), exact and wildcard keys as they come, and within a
\* key in the order of its listeners.
C17_KeysInRegistrationOrder ==
    (EmitDone /\ Quiet) =>
        LET exp == expectedCalls(snap.events, snap.event) IN
        /\ Len(directCalls) = Len(exp)
        /\ \A i \in 1..Len(exp) :
              /\ directCalls[i].key = exp[i].key
              /\ directCalls[i].l = exp[i].l

\* A wildcard key registered before an exact key, both matching: the
\* listener of the wildcard key was called first
C17_Witness ==
    /\ EmitDone
    /\ Quiet
    /\ Len(snap.events) = 2
    /\ includes(snap.events[1].key, "*")
    /\ ~includes(snap.events[2].key, "*")
    /\ Len(directCalls) = 2
    /\ directCalls[1].key = snap.events[1].key
    /\ directCalls[2].key = snap.events[2].key

-----------------------------------------------------------------------------
(* C18 - C20 *)

\* C18: an emit that is over has called the listeners of a key holding '*'
\* exactly when the emitted name equals the key with every '*' replaced by
\* some run of characters, possibly empty.
C18_WildcardMatchesGlob ==
    EmitOver =>
        \A i \in 1..Len(snap.events) :
            LET p == snap.events[i].key IN
            (includes(p, "*") /\ snap.events[i].ls # <<>>) =>
                (calledFor(p) # <<>> <=> globMatches(rawKey(p), snap.event))

\* C19: an emit that is over has called the listeners of a key holding '*'
\* only when every character of the key other than '*' stands for itself in
\* the emitted name.
C19_KeyCharactersAreLiteral ==
    EmitOver =>
        \A i \in 1..Len(snap.events) :
            LET p == snap.events[i].key IN
            (includes(p, "*") /\ calledFor(p) # <<>>) =>
                globMatches(rawKey(p), snap.event)

\* C20: an emit of a name E that is over has called the listeners of a key
\* without '*' exactly when the key is E character for character, and then
\* with the emitted arguments alone.
C20_ExactKeyByEquality ==
    EmitOver =>
        \A i \in 1..Len(snap.events) :
            LET p == snap.events[i].key IN
            (~includes(p, "*") /\ snap.events[i].ls # <<>>) =>
                /\ calledFor(p) # <<>> <=> p = snap.event
                /\ \A c \in 1..Len(callsOfKey(p)) : callsOfKey(p)[c].args = snap.args

\* A key with the metacharacters '.' and '(' and no '*' was emitted and its
\* listener called with the arguments alone
C20_Witness ==
    /\ EmitOver
    /\ Len(snap.events) = 1
    /\ includes(snap.events[1].key, ".")
    /\ ~includes(snap.events[1].key, "*")
    /\ snap.events[1].key = snap.event
    /\ Len(directCalls) = 1
    /\ directCalls[1].args = snap.args

-----------------------------------------------------------------------------
(* C21 *)

\* C21: when emit has returned, it returned its EmitResult synchronously
\* exactly when no listener called during that emit returned a deferred
\* result, and a deferred EmitResult otherwise; success is true exactly
\* when errors is absent, and errors, when present, is not empty.
C21_SyncIffNoDeferred ==
    EmitDone =>
        /\ ret.state = "sync" <=>
              ~\E j \in 1..Len(trace) : trace[j].t = "call" /\ trace[j].l.k = "async"
        /\ ret.state \in {"sync", "resolved"} =>
              /\ ret.value.success <=> ret.value.errors = <<>>
              /\ ret.value.errors # <<>> => errorsOf(ret) # <<>>

\* The same for the listeners emit calls itself (not through a onceWrapper)
C21_SyncIffNoDeferredDirectly ==
    EmitDone =>
        /\ ret.state = "sync" <=>
              ~\E j \in 1..Len(directCalls) : directCalls[j].l.k = "async"
        /\ ret.state \in {"sync", "resolved"} =>
              /\ ret.value.success <=> ret.value.errors = <<>>
              /\ ret.value.errors # <<>> => errorsOf(ret) # <<>>

-----------------------------------------------------------------------------
(* C22 *)

\* C22: every step (on, off, clear(K), clear(), onError, and the steps of
\* emit) leaves the error observers registered so far in place and in order,
\* and when an emit is over each observer registered at its call has been
\* notified once for every listener call that threw.
C22_ObserversAppendOnly ==
    [][/\ Len(errorListeners) <= Len(errorListeners')
       /\ SubSeq(errorListeners', 1, Len(errorListeners)) = errorListeners
       /\ EmitOver' =>
             \A h \in 1..Len(snap'.observers) :
                Len(SelectSeq(notifications', LAMBDA e : e.l = snap'.observers[h]))
                   = Len(thrown')]_vars

\* Two observers were registered, then a key or a listener was removed, and
\* the next emit notified both observers of a throwing listener
C22_Witness ==
    /\ EmitOver
    /\ last.op \in {"off", "clear"}
    /\ Len(last.observers) = 2
    /\ last.before # events
    /\ errorListeners = last.observers
    /\ Len(thrown) = 1
    /\ Len(notifications) = 2

-----------------------------------------------------------------------------
(* C23 - C25 *)

\* The keys of the registry ev, in its order
keysOf(ev) == [i \in 1..Len(ev) |-> ev[i].key]

\* C23: after on(K, L), the sequence of K is the sequence it had before
\* (none counts as empty) with L appended, the sequence of every other key
\* is what it was, and the keys are in the order they had, a new key K last.
C23_OnAppends ==
    last.op = "on" =>
        LET p == getWildcardPattern(last.key[1]) IN
        /\ get(events, p) = Append(get(last.before, p), last.l)
        /\ \A i \in 1..Len(last.before) :
              last.before[i].key # p =>
                  get(events, last.before[i].key) = last.before[i].ls
        /\ keysOf(events) = IF has(last.before, p) THEN keysOf(last.before)
                            ELSE Append(keysOf(last.before), p)

\* The same listener was registered a second time under a key, beside
\* another key
C23_Witness ==
    /\ last.op = "on"
    /\ Len(last.before) = 2
    /\ count(get(last.before, getWildcardPattern(last.key[1])), last.l) = 1
    /\ count(get(events, getWildcardPattern(last.key[1])), last.l) = 2

\* C24: no key of the registry maps to an empty listener sequence.
C24_NoEmptySequence ==
    \A i \in 1..Len(events) : events[i].ls # <<>>

\* The call recorded in last is off(K), off(K, L) or clear(K) with K not
\* registered, or off(K, L) with L not in the sequence of K
removesNothing ==
    /\ last.op \in {"off", "clear"}
    /\ last.key # <<>>
    /\ LET p == getWildcardPattern(last.key[1]) IN
       \/ ~has(last.before, p)
       \/ last.op = "off" /\ last.l # Undefined /\ count(get(last.before, p), last.l) = 0

\* C25: after off(K), off(K, L) or clear(K) with K not registered, or
\* off(K, L) with L not in the sequence of K, the registry (keys, sequences,
\* order) and the error observers are what they were before the call.
C25_RemovingNothingIsNoOp ==
    removesNothing => (events = last.before /\ errorListeners = last.observers)

\* The same for every K but the empty string
C25_RemovingNothingNonEmptyKey ==
    (removesNothing /\ last.key[1] # <<>>) =>
        (events = last.before /\ errorListeners = last.observers)

-----------------------------------------------------------------------------
(* C26 *)

\* C26: the array a call of Pulse.listeners(K) returned is, whatever is
\* called later, the sequence it was when it was returned, and it was empty
\* if K was not registered at the call.
C26_ListenersIsSnapshot ==
    pulse.held.got =>
        /\ pulse.held.value = pulse.held.seen
        /\ ~pulse.held.known => pulse.held.seen = <<>>

-----------------------------------------------------------------------------
(* C27 *)

\* The calls of function arguments made by the observed emit
argEntries == SelectSeq(trace, LAMBDA e : e.t = "arg")

\* The last n elements of the sequence q
lastOf(q, n) == SubSeq(q, Len(q) - n + 1, Len(q))

\* C27: during and after an emit call, each function among its arguments has
\* been called exactly once, however many listeners matched; these calls come
\* before every listener call; and every listener called, by emit or by a
\* once wrapper, has received in each argument position the value of the
\* argument, which for a function argument is the value that one call returned.
C27_CallableArgsOnce ==
    (frame.active \/ EmitOver) =>
        /\ Len(argEntries) = Len(SelectSeq(snap.raw, LAMBDA a : a.fn))
        /\ \A i, j \in 1..Len(trace) :
              (trace[i].t = "arg" /\ trace[j].t # "arg") => i < j
        /\ \A i \in 1..Len(trace) :
              trace[i].t = "call" =>
                 /\ Len(trace[i].args) >= Len(snap.raw)
                 /\ lastOf(trace[i].args, Len(snap.raw))
                       = [a \in 1..Len(snap.raw) |-> snap.raw[a].v]

\* An emit with a function argument has returned after calling two
\* listeners; the function was called once and both received its value
C27_Witness ==
    /\ EmitOver
    /\ Len(snap.raw) = 1 /\ snap.raw[1].fn
    /\ Len(argEntries) = 1
    /\ Len(directCalls) >= 2
    /\ \A i \in 1..Len(directCalls) : lastOf(directCalls[i].args, 1) = <<snap.raw[1].v>>

-----------------------------------------------------------------------------
(* C28 *)

\* The calls in which a once wrapper called a listener that threw
onceThrows == SelectSeq(trace, LAMBDA e : e.t = "call" /\ e.via > 0 /\ e.l.k = "bad")

\* The Errors thrown by the listeners called so far, in the order of the calls
thrownErrors == [i \in 1..Len(thrown) |-> thrown[i].l]

-----------------------------------------------------------------------------
(* C29 *)

\* The calls of once wrappers made by the observed emit
wrapperCalls == SelectSeq(trace, LAMBDA e : e.t = "call" /\ e.l.k = "once")

\* Did the call e of a once wrapper return (its listener did not throw)?
wrapperReturned(e) ==
    \/ closures[e.l.n].listener.k # "bad"
    \/ snap.closures[e.l.n].emitCount >= closures[e.l.n].maxEmits

\* C29: once a call of a once wrapper has returned with the counter of the
\* wrapper at maxEmits or above, the wrapper is registered under no key,
\* whether that call invoked the wrapped listener or not; the listener of a
\* wrapper with maxEmits <= 0 is never invoked, and such a wrapper is
\* registered no longer when an emit that matched its key has returned.
C29_WrapperRemovesItself ==
    /\ (frame.active \/ EmitOver) =>
          \A t \in 1..Len(wrapperCalls) :
             LET i == wrapperCalls[t].l.n IN
             /\ i <= Len(closures)
             /\ (wrapperReturned(wrapperCalls[t])
                   /\ closures[i].emitCount >= closures[i].maxEmits)
                   => ~registered(events, Wrapper(i))
    /\ \A i \in 1..Len(closures) :
          closures[i].maxEmits <= 0 => closures[i].invoked = 0
    /\ (EmitOver /\ ret.state # "threw") =>
          \A i \in 1..Len(snap.closures) :
             (/\ snap.closures[i].maxEmits <= 0
              /\ registered(snap.events, Wrapper(i))
              /\ eventMatches(snap.closures[i].event, snap.event))
                => ~registered(events, Wrapper(i))

\* An emit has called a wrapper registered with maxEmits = 0 and returned:
\* the wrapped listener was not invoked and the wrapper is gone
C29_Witness ==
    /\ EmitOver
    /\ Len(wrapperCalls) = 1
    /\ LET i == wrapperCalls[1].l.n IN
       /\ closures[i].maxEmits = 0
       /\ closures[i].invoked = 0
       /\ registered(snap.events, Wrapper(i))
       /\ ~registered(events, Wrapper(i))

-----------------------------------------------------------------------------
(* C30 *)

\* Has emit come to wait for the promises of its listeners?
Waiting == ret.state \in {"pending", "resolved", "rejected"}

\* C30: while emit is still calling listeners it waits for no promise and
\* has returned nothing; and when it has come to wait (no listener having
\* changed the registry), every listener of every matching key has been
\* called, those after a listener that returned a promise included.
C30_AllInvokedBeforeWaiting ==
    /\ frame.active => (~pending.active /\ ret.state = "none")
    /\ pending.active => Waiting
    /\ (Waiting /\ Quiet) =>
          LET exp == expectedCalls(snap.events, snap.event) IN
          /\ \E i \in 1..Len(directCalls) : directCalls[i].l.k = "async"
          /\ [i \in 1..Len(directCalls) |-> directCalls[i].l]
                = [i \in 1..Len(exp) |-> exp[i].l]

\* emit waits for the promise of the first listener, still pending, and the
\* listener registered after it has been called
C30_Witness ==
    /\ ret.state = "pending" /\ Quiet
    /\ pending.active
    /\ \A i \in 1..Len(pending.ps) : pending.ps[i].st = "pending"
    /\ Len(directCalls) = 2
    /\ directCalls[1].l.k = "async"
    /\ directCalls[2].l.k = "ok"
    /\ directCalls[1].key = directCalls[2].key

-----------------------------------------------------------------------------
(* C31 *)

\* C31: in the history of an emit, the call of a listener that threw is
\* followed at once, before any other call, by one notification of every
\* error observer, in the order of the observers, each given the emitted name
\* (not the key of the listener) and the Error thrown.
C31_ObserversNotifiedAtOnce ==
    (frame.active \/ EmitOver) =>
        \A t \in 1..Len(trace) :
           (trace[t].t = "call" /\ trace[t].l.k = "bad") =>
              \A h \in 1..Len(snap.observers) :
                 /\ t + h <= Len(trace)
                 /\ trace[t + h].t = "notify"
                 /\ trace[t + h].l = snap.observers[h]
                 /\ trace[t + h].args = <<snap.event>>
                 /\ trace[t + h].err = trace[t].l

\* A listener under a wildcard key threw for a name other than the key, two
\* observers were notified with the name, and then the next listener was called
C31_Witness ==
    /\ EmitOver
    /\ Len(snap.observers) = 2
    /\ Len(trace) = 4
    /\ trace[1].t = "call" /\ trace[1].l.k = "bad"
    /\ includes(trace[1].key, "*")
    /\ trace[1].key # snap.event
    /\ rawKey(trace[1].key) # snap.event
    /\ trace[2].t = "notify" /\ trace[2].args = <<snap.event>>
    /\ trace[3].t = "notify" /\ trace[3].args = <<snap.event>>
    /\ trace[4].t = "call" /\ trace[4].l.k = "ok"

-----------------------------------------------------------------------------
(* C32 *)

\* C32: the errors of an EmitResult begin with the Errors of the listeners
\* that threw, in the order of their calls, whether a listener that returned
\* a promise was called before them or not; what follows them are Errors of
\* rejected promises of that emit; an EmitResult returned at once holds the
\* thrown Errors only; and success is true exactly when there is no error.
C32_ErrorsInObservedOrder ==
    ret.state \in {"sync", "resolved"} =>
        LET es == errorsOf(ret) IN
        /\ Len(es) >= Len(thrown)
        /\ SubSeq(es, 1, Len(thrown)) = thrownErrors
        /\ ret.state = "sync" => es = thrownErrors
        /\ \A j \in (Len(thrown) + 1)..Len(es) :
              \E i \in rejected : pending.ps[i].l = es[j]
        /\ ret.value.success <=> es = <<>>

\* A listener returned a promise, then two listeners threw, then the
\* promise was rejected: the two thrown Errors come first, in their order
C32_Witness ==
    /\ ret.state = "resolved"
    /\ Len(directCalls) = 3
    /\ directCalls[1].l.k = "async"
    /\ directCalls[2].l.k = "bad"
    /\ directCalls[3].l.k = "bad"
    /\ directCalls[2].l # directCalls[3].l
    /\ errorsOf(ret) = <<directCalls[2].l, directCalls[3].l, directCalls[1].l>>

-----------------------------------------------------------------------------
(* C33 *)

\* C33: after off(K, L), and until the next call of on, off, clear or
\* onError, the sequence of K is its sequence before the call without any
\* occurrence of L, the others in their order; the sequence of every other
\* key is what it was, no key has been added, and the error observers are
\* what they were.
C33_OffFrame ==
    (last.op = "off" /\ last.l # Undefined) =>
        LET p == getWildcardPattern(last.key[1]) IN
        /\ get(events, p) = SelectSeq(get(last.before, p), LAMBDA x : x # last.l)
        /\ \A i \in 1..Len(last.before) :
              last.before[i].key # p =>
                 /\ has(events, last.before[i].key)
                 /\ get(events, last.before[i].key) = last.before[i].ls
        /\ \A i \in 1..Len(events) : has(last.before, events[i].key)
        /\ errorListeners = last.observers

\* off(K, L) was called with L before another listener under K and L also
\* under another key, and with an observer: K holds the other listener, the
\* other key still holds L
C33_Witness ==
    /\ last.op = "off" /\ last.l # Undefined
    /\ Len(last.before) = 2
    /\ Len(last.observers) = 1
    /\ LET p == getWildcardPattern(last.key[1]) IN
       /\ Len(get(last.before, p)) = 2
       /\ get(last.before, p)[1] = last.l
       /\ Len(get(events, p)) = 1
       /\ \E i \in 1..Len(events) : events[i].key # p /\ events[i].ls = <<last.l>>

-----------------------------------------------------------------------------
(* C34 *)

\* C34: after clear(K) of a key string K holding '*', and until the next
\* registry call, an emit of the Pulse of types.ts calls no listener of a
\* pattern registered with onPattern(K, L).
C34_ClearRemovesPattern ==
    (/\ pulse.hist.op = "clear"
     /\ pulse.hist.key # <<>>
     /\ includes(pulse.hist.key[1], "*")) =>
        \A c \in 1..Len(pulse.calls) :
           pulse.calls[c].re.src # replaceFirstStar(pulse.hist.key[1])

-----------------------------------------------------------------------------
(* C35 *)

\* C35: after offPattern(K, L) with a key string K no pattern registered with
\* the string K holds L; and off(E, L) with a name E without '*' leaves
\* wildcardEvents as it was.
C35_OffKeyedByRegistrationString ==
    /\ (pulse.hist.op = "offPattern" /\ pulse.hist.key[1].str) =>
          \A i \in 1..Len(pulse.wildcardEvents) :
             pulse.wildcardEvents[i].re.src = toRegExp(pulse.hist.key[1]).src
                => count(pulse.wildcardEvents[i].ls, pulse.hist.l) = 0
    /\ (/\ pulse.hist.op = "off"
        /\ pulse.hist.l # Undefined
        /\ ~includes(pulse.hist.key[1], "*")) =>
          pulse.wildcardEvents = pulse.hist.wild

-----------------------------------------------------------------------------
(* C36 *)

\* C36: the listener of once(E, L, n) has at no time been called more than n
\* times (never, for n <= 0), listeners that call emit from within their own
\* call included.
C36_AtMostNCalls ==
    \A i \in 1..Len(closures) :
        closures[i].invoked <= (IF closures[i].maxEmits > 0 THEN closures[i].maxEmits ELSE 0)

-----------------------------------------------------------------------------
(* C37 *)

\* C37: when emit has returned without throwing, for every call in which a
\* once wrapper called a listener that returns a promise, emit has returned a
\* deferred EmitResult and that promise is among those emit waits for, so
\* that its rejection is reported to the error observers and in errors as
\* for a listener registered with on.
C37_OnceDeferredTracked ==
    (EmitOver /\ ret.state # "threw") =>
        \A t \in 1..Len(trace) :
           (trace[t].t = "call" /\ trace[t].via > 0 /\ trace[t].l.k = "async") =>
              /\ Waiting
              /\ \E i \in 1..Len(pending.ps) : pending.ps[i].l = trace[t].l

-----------------------------------------------------------------------------
(* C38 *)

\* C38: when the last registry call is off(E, L), no emit made since has
\* invoked L through a wrapper that once(E, L, n) registered.
C38_OffCancelsOnce ==
    (last.op = "off" /\ last.l # Undefined) =>
        \A t \in 1..Len(trace) :
           (trace[t].t = "call" /\ trace[t].via > 0 /\ trace[t].l = last.l) =>
              closures[trace[t].via].event # last.key[1]

-----------------------------------------------------------------------------
(* C39 *)

\* C39: when an error observer that throws has been notified of the Error a
\* listener threw, emit has not thrown, and once emit has returned (no
\* listener having changed the registry) every listener that was registered
\* under a key the name matches has been called.
C39_ObserverThrowContained ==
    (\E t \in 1..Len(trace) : /\ trace[t].t = "notify"
                              /\ trace[t].l.k = "badobserver"
                              /\ trace[t].err.k = "bad") =>
        /\ ret.state # "threw"
        /\ (EmitOver /\ Quiet) =>
              \A k \in 1..Len(snap.events) :
                 eventMatches(snap.events[k].key, snap.event) =>
                    \A j \in 1..Len(snap.events[k].ls) :
                       \E c \in 1..Len(directCalls) :
                          directCalls[c].l = snap.events[k].ls[j]

-----------------------------------------------------------------------------
(* C40 *)

\* The number of listeners stored in ev under the keys the name e matches
RECURSIVE matchedCount(_, _)
matchedCount(ev, e) ==
    IF ev = <<>> THEN 0
    ELSE (IF eventMatches(Head(ev).key, e) THEN Len(Head(ev).ls) ELSE 0)
            + matchedCount(Tail(ev), e)

\* C40: an emit whose listeners all return without a promise has at no time
\* called more listeners than were registered under matching keys when it
\* started, listeners that call on for a matching key included.
C40_CallsBoundedBySnapshot ==
    (/\ frame.active \/ EmitOver
     /\ \A t \in 1..Len(trace) :
           trace[t].t = "call" => trace[t].l.k \in {"ok", "mut", "once"}) =>
        Len(directCalls) <= matchedCount(snap.events, snap.event)

====
